---- MODULE Spec2Model ----
(***************************************************************************)
(* Retrieval subsystem of RAGchat: the word-window chunker of the chat     *)
(* App, the character-bounded chunker of the upload function, the BM25     *)
(* class and the App's hybrid searchDocuments.                             *)
(*                                                                         *)
(* A string is a sequence of one-character strings.  A JavaScript number   *)
(* is a fixed-point integer in units of 1/Scale, wrapped in a record that  *)
(* also says whether the number is NaN.                                    *)
(***************************************************************************)
EXTENDS Integers, Sequences, FiniteSets, TLC

(***************************************************************************)
(* Bounds of the model.                                                    *)
(***************************************************************************)
\* longest short text handed to the chunkers
MaxLen == 3
\* largest chunkSize / overlap tried on short texts
MaxWin == 3
\* iterations explored of a chunking loop whose step is not positive
MaxIter == 3
\* largest maxTokens tried on the character-bounded chunker
MaxTokens == 3
\* most documents added to one BM25 instance
MaxDocs == 3
\* most rows held by the documents table
MaxRows == 2
\* the most vectors the Pinecone index holds
MaxIndex == 6
\* the most chunks of one document uploaded to the server
MaxParts == 2
\* the most chunks of one file uploaded in the App
MaxChunks == 6
\* the most upload requests one server process has at a time
MaxUploads == 3
MaxQueries == 3

Alphabet == {"a", "b", " "}

RECURSIVE StringsOfLen(_)
StringsOfLen(n) ==
  IF n = 0 THEN {<<>>}
  ELSE {Append(s, c) : s \in StringsOfLen(n - 1), c \in Alphabet}

ShortTexts == UNION {StringsOfLen(n) : n \in 0..MaxLen}

\* the 20-word document "a b c ... t"
Letters == <<"a", "b", "c", "d", "e", "f", "g", "h", "i", "j",
             "k", "l", "m", "n", "o", "p", "q", "r", "s", "t">>

Doc20 == [k \in 1..39 |-> IF k % 2 = 1 THEN Letters[(k + 1) \div 2] ELSE " "]

Texts == ShortTexts \cup {Doc20}

\* (chunkSize, overlap) pairs, valid and invalid
Configs == ((1..MaxWin) \X (0..MaxWin)) \cup {<<10, 5>>}

(***************************************************************************)
(* String primitives of JavaScript.                                        *)
(***************************************************************************)
Min(x, y) == IF x < y THEN x ELSE y
Max(x, y) == IF x > y THEN x ELSE y

\* the characters matched by \s that the alphabet can produce
IsSpace(c) == c \in {" ", "\n", "\t"}

\* String.prototype.split(/\s+/): every maximal run of whitespace separates
\* two words; a leading or trailing run leaves an empty word, and the empty
\* string splits into one empty word.
RECURSIVE SplitWsFrom(_, _, _, _)
SplitWsFrom(s, k, cur, acc) ==
  IF k > Len(s) THEN Append(acc, cur)
  ELSE IF IsSpace(s[k])
       THEN IF k > 1 /\ IsSpace(s[k - 1])
            THEN SplitWsFrom(s, k + 1, cur, acc)
            ELSE SplitWsFrom(s, k + 1, <<>>, Append(acc, cur))
       ELSE SplitWsFrom(s, k + 1, Append(cur, s[k]), acc)

SplitWs(s) == SplitWsFrom(s, 1, <<>>, <<>>)

\* String.prototype.split(' '): every single space separates two words.
RECURSIVE SplitSpaceFrom(_, _, _, _)
SplitSpaceFrom(s, k, cur, acc) ==
  IF k > Len(s) THEN Append(acc, cur)
  ELSE IF s[k] = " "
       THEN SplitSpaceFrom(s, k + 1, <<>>, Append(acc, cur))
       ELSE SplitSpaceFrom(s, k + 1, Append(cur, s[k]), acc)

SplitSpace(s) == SplitSpaceFrom(s, 1, <<>>, <<>>)

\* Array.prototype.join(' ')
RECURSIVE Join(_)
Join(ws) ==
  IF Len(ws) = 0 THEN <<>>
  ELSE IF Len(ws) = 1 THEN ws[1]
  ELSE ws[1] \o <<" ">> \o Join(Tail(ws))

\* (mutant) a slice that leaves out the element before end
SliceShort(arr, start, end) ==
  LET n  == Len(arr)
      from == IF start < 0 THEN Max(n + start, 0) ELSE Min(start, n)
      to   == IF end < 0 THEN Max(n + end - 1, 0) ELSE Min(end - 1, n)
  IN  IF from >= to THEN <<>> ELSE SubSeq(arr, from + 1, to)

\* Array.prototype.slice(start, end) on 0-based indices: a negative index
\* counts from the end, both are clamped to the array.
Slice(arr, start, end) ==
  LET n  == Len(arr)
      from == IF start < 0 THEN Max(n + start, 0) ELSE Min(start, n)
      to   == IF end < 0 THEN Max(n + end, 0) ELSE Min(end, n)
  IN  IF from >= to THEN <<>> ELSE SubSeq(arr, from + 1, to)

(***************************************************************************)
(* State.                                                                  *)
(***************************************************************************)
VARIABLES
  pc,          \* word-window chunkText: "idle", "loop" or "done"
  text,        \* its argument text
  chunkSize,   \* its argument chunkSize
  overlap,     \* its argument overlap
  words,       \* its local words
  i,           \* its loop index
  chunks,      \* its local chunks, the returned list once pc = "done"
  apiChunks,   \* last call of the character-bounded chunkText
  documents,   \* BM25.documents
  idfCache,    \* BM25.idfCache, a function from the cached terms to their idf
  bm25Out,     \* last call on the BM25 instance and what it returned
  rows,        \* the documents table of the store
  hybridOut,   \* last call of searchDocuments and what it computed
  vectorStore, \* the server's vectorStore: "pending" while initVectorStore
               \* awaits, "set" once assigned, "failed" when the await threw;
               \* the variable is undefined unless "set"
  pineconeIndex, \* the vectors of the Pinecone index, best match of the
               \* query first, each the documentId of its metadata
  adds,        \* the running uploadHandler: its documentId and the state of
               \* each addDocuments call
  documentMetadata, \* documentMetadata.json: the ids of the uploaded documents
  response,    \* the last HTTP response of the server
  uploadPc,    \* handleFileUpload: "idle", "embedding", "inserting",
               \* "succeeded" or "failed"
  embeddings,  \* its generateEmbedding calls, one per chunk
  insertI,     \* its loop index i
  stored,      \* the chunk_index values of the file's rows in documents
  uploadMessage, \* the message it appended to messages
  uploads,     \* the uploadHandler invocations of one process, side by side:
               \* where each stands and when it arrived
  chat,        \* the state of the chat App: input, isProcessing,
               \* selectedDocId, messages, error
  rendered,    \* the state the committed render closed over: what the
               \* handlers of the page read
  inFlight,    \* the handleSubmit calls between their guard and their finally
  submitOut    \* the handleSubmit call that has just returned to the page:
               \* the state it was called in and whether it went on

vars == <<pc, text, chunkSize, overlap, words, i, chunks, apiChunks,
          documents, idfCache, bm25Out, rows, hybridOut,
          vectorStore, pineconeIndex, adds, documentMetadata, response,
          uploadPc, embeddings, insertI, stored, uploadMessage, uploads,
          chat, rendered, inFlight, submitOut>>

NoCall == [called |-> FALSE]

chunkVars == <<pc, text, chunkSize, overlap, words, i, chunks>>
bm25Vars  == <<documents, idfCache, bm25Out>>
appVars   == <<rows, hybridOut>>
serverVars == <<vectorStore, pineconeIndex, adds, documentMetadata, response>>
ingestVars == <<uploadPc, embeddings, insertI, stored, uploadMessage>>
chatVars   == <<chat, rendered, inFlight, submitOut>>

\* the App's state after useState: no input, no document, the welcome
\* message
ChatInit == [input |-> <<>>, isProcessing |-> FALSE, selectedDocId |-> "none",
             messages |-> <<[role |-> "system", content |-> "Welcome"]>>,
             error |-> "none"]

(***************************************************************************)
(* Word-window chunkText of the chat App, one loop iteration per step.     *)
(***************************************************************************)
\* (mutant) the increment forgets the overlap
ChunkStepNoOverlap(size, ov) == size

\* i += chunkSize - overlap
ChunkStep(size, ov) == size - ov

\* const words = text.split(/\s+/); const chunks = []; let i = 0
ChunkTextCall ==
  /\ pc = "idle"
  /\ apiChunks = NoCall
  /\ \E t \in Texts, cfg \in Configs :
       /\ text' = t
       /\ chunkSize' = cfg[1]
       /\ overlap' = cfg[2]
       /\ words' = SplitWs(t)
  /\ i' = 0
  /\ chunks' = <<>>
  /\ pc' = "loop"
  /\ UNCHANGED <<apiChunks, bm25Vars, appVars,
               serverVars, ingestVars, uploads, chatVars>>

\* one iteration of the for loop: the body, then the increment
ChunkTextLoop ==
  /\ pc = "loop"
  /\ i < Len(words)
  /\ ChunkStep(chunkSize, overlap) > 0 \/ Len(chunks) < MaxIter
  /\ chunks' = Append(chunks, Join(Slice(words, i, i + chunkSize)))
  /\ i' = i + ChunkStep(chunkSize, overlap)
  /\ UNCHANGED <<pc, text, chunkSize, overlap, words, apiChunks, bm25Vars, appVars,
               serverVars, ingestVars, uploads, chatVars>>

\* the loop condition fails: return chunks
ChunkTextReturn ==
  /\ pc = "loop"
  /\ ~(i < Len(words))
  /\ pc' = "done"
  /\ UNCHANGED <<text, chunkSize, overlap, words, i, chunks, apiChunks, bm25Vars, appVars,
               serverVars, ingestVars, uploads, chatVars>>

\* the caller takes the result; the next call may start
ChunkTextReset ==
  /\ pc = "done"
  /\ pc' = "idle"
  /\ text' = <<>>
  /\ chunkSize' = 1
  /\ overlap' = 0
  /\ words' = <<>>
  /\ i' = 0
  /\ chunks' = <<>>
  /\ UNCHANGED <<apiChunks, bm25Vars, appVars,
               serverVars, ingestVars, uploads, chatVars>>

(***************************************************************************)
(* Character-bounded chunkText of the upload function.                     *)
(***************************************************************************)
\* (mutant) a loop that flushes already when the word would fill the chunk
\* to maxTokens exactly
RECURSIVE ApiChunkLoopEager(_, _, _, _, _)
ApiChunkLoopEager(ws, k, chunk, out, maxTokens) ==
  IF k > Len(ws)
  THEN IF Len(chunk) > 0 THEN Append(out, Join(chunk)) ELSE out
  ELSE IF Len(Join(chunk)) + Len(ws[k]) + 1 >= maxTokens
       THEN ApiChunkLoopEager(ws, k + 1, <<ws[k]>>, Append(out, Join(chunk)), maxTokens)
       ELSE ApiChunkLoopEager(ws, k + 1, Append(chunk, ws[k]), out, maxTokens)

\* the for loop over words, with the running chunk and the chunks so far
RECURSIVE ApiChunkLoop(_, _, _, _, _)
ApiChunkLoop(ws, k, chunk, out, maxTokens) ==
  IF k > Len(ws)
  THEN IF Len(chunk) > 0 THEN Append(out, Join(chunk)) ELSE out
  ELSE IF Len(Join(chunk)) + Len(ws[k]) + 1 > maxTokens
       THEN ApiChunkLoop(ws, k + 1, <<ws[k]>>, Append(out, Join(chunk)), maxTokens)
       ELSE ApiChunkLoop(ws, k + 1, Append(chunk, ws[k]), out, maxTokens)

ApiChunkText(t, maxTokens) == ApiChunkLoop(SplitSpace(t), 1, <<>>, <<>>, maxTokens)

ApiChunkTextCall ==
  /\ pc = "idle"
  /\ apiChunks = NoCall
  /\ \E t \in ShortTexts, m \in 1..MaxTokens :
       apiChunks' = [called |-> TRUE, text |-> t, maxTokens |-> m,
                     chunks |-> ApiChunkText(t, m)]
  /\ UNCHANGED <<chunkVars, bm25Vars, appVars,
               serverVars, ingestVars, uploads, chatVars>>

\* the caller takes the result; the next call may start
ApiChunkTextReset ==
  /\ apiChunks # NoCall
  /\ apiChunks' = NoCall
  /\ UNCHANGED <<chunkVars, bm25Vars, appVars,
               serverVars, ingestVars, uploads, chatVars>>

Init ==
  /\ pc = "idle"
  /\ text = <<>>
  /\ chunkSize = 1
  /\ overlap = 0
  /\ words = <<>>
  /\ i = 0
  /\ chunks = <<>>
  /\ apiChunks = NoCall
  /\ documents = <<>>
  /\ idfCache = <<>>
  /\ bm25Out = NoCall
  /\ rows = <<>>
  /\ hybridOut = NoCall
  /\ vectorStore = "pending"
  /\ pineconeIndex = <<>>
  /\ adds = NoCall
  /\ documentMetadata = <<>>
  /\ response = NoCall
  /\ uploadPc = "idle"
  /\ embeddings = <<>>
  /\ insertI = 0
  /\ stored = {}
  /\ uploadMessage = NoCall
  /\ uploads = [u \in 1..MaxUploads |-> [pc |-> "idle", arrival |-> 0]]
  /\ chat = ChatInit
  /\ rendered = ChatInit
  /\ inFlight = 0
  /\ submitOut = NoCall

NextChunk ==
  \/ ChunkTextCall
  \/ ChunkTextLoop
  \/ ChunkTextReturn
  \/ ChunkTextReset
  \/ ApiChunkTextCall
  \/ ApiChunkTextReset

SpecChunk == Init /\ [][NextChunk]_vars

(***************************************************************************)
(* JavaScript numbers: fixed point, in units of 1/Scale, or NaN.           *)
(***************************************************************************)
Scale == 100 * 100

Num(v) == [nan |-> FALSE, v |-> v]
NaN    == [nan |-> TRUE, v |-> 0]

\* a + b
NumAdd(x, y) == IF x.nan \/ y.nan THEN NaN ELSE Num(x.v + y.v)

\* a - b
NumSub(x, y) == IF x.nan \/ y.nan THEN NaN ELSE Num(x.v - y.v)

\* the series 2 * (y + y^3/3 + y^5/5 + ...) of ln((1 + y)/(1 - y)), in fixed
\* point; pow is y^k
RECURSIVE AtanhSeries(_, _, _, _)
AtanhSeries(y, pow, k, acc) ==
  IF pow = 0 \/ k > 199 THEN acc
  ELSE AtanhSeries(y, (((pow * y) \div Scale) * y) \div Scale, k + 2,
                   acc + (pow \div k))

\* Math.log(p / q) for integers p, q > 0, truncated: right to about three
\* decimals for the arguments an index of a few documents produces
LnFix(p, q) ==
  LET y == ((p - q) * Scale) \div (p + q)
  IN  2 * AtanhSeries(y, y, 1, 0)

(***************************************************************************)
(* The BM25 class.                                                         *)
(***************************************************************************)
\* k1 = 1.5 = K1Num / K1Den and b = 0.75 = BNum / BDen
K1Num == 3
K1Den == 2
BNum == 3
BDen == 4

\* the chunk texts and the queries handed to the index
DocTexts == {<<"a">>, <<"b">>, <<"a", "b">>, <<"a", " ", "b">>}
Queries  == {<<"a">>, <<"b">>, <<"a", " ", "a">>, <<"a", " ", "b">>}

\* String.prototype.includes: term occurs in doc as a substring
Includes(doc, term) ==
  \E k \in 0..(Len(doc) - Len(term)) : SubSeq(doc, k + 1, k + Len(term)) = term

\* (mutant) a word counts when the term occurs anywhere in the document
TermCountSubstring(term, doc) == IF Includes(doc, term) THEN 1 ELSE 0

\* words.filter(word => word === term).length
TermCount(term, doc) ==
  LET ws == SplitWs(doc)
  IN  Cardinality({k \in 1..Len(ws) : ws[k] = term})

\* doc.split(/\s+/).length
DocLength(doc) == Len(SplitWs(doc))

\* this.documents.reduce((sum, doc) => sum + doc.split(/\s+/).length, 0)
RECURSIVE TotalLength(_)
TotalLength(docs) ==
  IF docs = <<>> THEN 0 ELSE DocLength(docs[1]) + TotalLength(Tail(docs))

\* this.documents.filter(doc => doc.includes(term)).length
ContainingDocs(docs, term) ==
  Cardinality({j \in 1..Len(docs) : Includes(docs[j], term)})

\* (mutant) the idf without the + 1 under the logarithm, the argument being
\* (2 * docCount - 2 * containingDocs + 1) / (2 * containingDocs + 1)
IdfValueNoPlusOne(docs, term) ==
  LnFix(2 * Len(docs) - 2 * ContainingDocs(docs, term) + 1,
        2 * ContainingDocs(docs, term) + 1)

\* Math.log((docCount - containingDocs + 0.5) / (containingDocs + 0.5) + 1),
\* the argument being (2 * docCount + 2) / (2 * containingDocs + 1)
IdfValue(docs, term) ==
  LnFix(2 * Len(docs) + 2, 2 * ContainingDocs(docs, term) + 1)

\* inverseDocumentFrequency(term): the cached value when there is one
InverseDocumentFrequency(cache, docs, term) ==
  IF term \in DOMAIN cache THEN cache[term] ELSE IdfValue(docs, term)

\* idf * ((tf * (k1 + 1)) / (tf + k1 * (1 - b + b * (docLength / avgDocLength))))
\* with tf = count / docLength and avgDocLength = total / docCount, numerator
\* and denominator multiplied by docLength * K1Den * BDen * total
Contribution(idf, count, docLength, total, docCount) ==
  (idf * (count * (K1Num + K1Den) * BDen * total))
    \div (count * K1Den * BDen * total
            + K1Num * docLength * ((BDen - BNum) * total + BNum * docLength * docCount))

\* (mutant) a reduce over the set of the query's terms: a term that stood
\* earlier in the list adds nothing
RECURSIVE ScoreFromDistinct(_, _, _, _, _)
ScoreFromDistinct(terms, k, doc, docs, cache) ==
  IF k > Len(terms) THEN 0
  ELSE (IF \E l \in 1..(k - 1) : terms[l] = terms[k] THEN 0
        ELSE Contribution(InverseDocumentFrequency(cache, docs, terms[k]),
                          TermCount(terms[k], doc), DocLength(doc),
                          TotalLength(docs), Len(docs)))
       + ScoreFromDistinct(terms, k + 1, doc, docs, cache)

\* terms.reduce((score, term) => score + ..., 0) from term k on
RECURSIVE ScoreFrom(_, _, _, _, _)
ScoreFrom(terms, k, doc, docs, cache) ==
  IF k > Len(terms) THEN 0
  ELSE Contribution(InverseDocumentFrequency(cache, docs, terms[k]),
                    TermCount(terms[k], doc), DocLength(doc),
                    TotalLength(docs), Len(docs))
       + ScoreFrom(terms, k + 1, doc, docs, cache)

\* score(query, doc); the idf of a term is the same at every use within one
\* search, cached before it or computed from docs during it
Score(query, doc, docs, cache) == Num(ScoreFrom(SplitWs(query), 1, doc, docs, cache))

\* (mutant) the comparator of an ascending sort
CompareAscending(x, y) == NumSub(x.score, y.score)

\* (a, b) => b.score - a.score
CompareByScore(x, y) == NumSub(y.score, x.score)

\* Array.prototype.sort places x after y when the comparator gives a number
\* above 0; NaN counts as 0
SortsAfter(x, y) ==
  LET d == CompareByScore(x, y) IN ~d.nan /\ d.v > 0

\* stable insertion of x into the sorted list out: x goes behind every
\* element it does not sort before
RECURSIVE InsertSorted(_, _)
InsertSorted(out, x) ==
  IF out = <<>> THEN <<x>>
  ELSE IF SortsAfter(out[Len(out)], x)
       THEN Append(InsertSorted(SubSeq(out, 1, Len(out) - 1), x), out[Len(out)])
       ELSE Append(out, x)

\* Array.prototype.sort with a consistent comparator: the stable sort
RECURSIVE SortFrom(_, _, _)
SortFrom(arr, k, out) ==
  IF k > Len(arr) THEN out ELSE SortFrom(arr, k + 1, InsertSorted(out, arr[k]))

Sort(arr) == SortFrom(arr, 1, <<>>)

\* search(query): documents.map(...).sort(...)
Search(query, docs, cache) ==
  Sort([j \in 1..Len(docs) |-> [doc |-> docs[j], score |-> Score(query, docs[j], docs, cache)]])

\* the terms whose idf a search looks up: none when there is no document
TermsOf(query, docs) ==
  IF docs = <<>> THEN {}
  ELSE LET ts == SplitWs(query) IN {ts[k] : k \in 1..Len(ts)}

\* the idf each term of the query got in a search
IdfUsed(query, docs, cache) ==
  [t \in TermsOf(query, docs) |-> InverseDocumentFrequency(cache, docs, t)]

\* (mutant) a cache that stores, for a new term, the idf of a term no
\* document contains
CacheAfterUncounted(query, docs, cache) ==
  [t \in (DOMAIN cache) \cup TermsOf(query, docs) |->
     IF t \in DOMAIN cache THEN cache[t] ELSE LnFix(2 * Len(docs) + 2, 1)]

\* idfCache after a search: this.idfCache.set(term, idf) for each new term
CacheAfter(query, docs, cache) ==
  [t \in (DOMAIN cache) \cup TermsOf(query, docs) |->
     InverseDocumentFrequency(cache, docs, t)]

\* bm25.addDocument(doc)
AddDocument ==
  /\ Len(documents) < MaxDocs
  /\ \E doc \in DocTexts : documents' = Append(documents, doc)
  /\ bm25Out' = [called |-> TRUE, op |-> "addDocument"]
  /\ UNCHANGED <<idfCache, chunkVars, apiChunks, appVars,
               serverVars, ingestVars, uploads, chatVars>>

\* bm25.search(query)
BM25Search ==
  /\ \E query \in Queries :
       /\ bm25Out' = [called |-> TRUE, op |-> "search", query |-> query,
                      idf |-> IdfUsed(query, documents, idfCache),
                      result |-> Search(query, documents, idfCache)]
       /\ idfCache' = CacheAfter(query, documents, idfCache)
  /\ UNCHANGED <<documents, chunkVars, apiChunks, appVars,
               serverVars, ingestVars, uploads, chatVars>>

NextBM25 ==
  \/ AddDocument
  \/ BM25Search

SpecBM25 == Init /\ [][NextBM25]_vars

(***************************************************************************)
(* Properties of the chunkers, checked under SpecChunk.                    *)
(***************************************************************************)
ValidConfig == 0 <= overlap /\ overlap < chunkSize

\* the windows starting at 0, step, 2*step, ... below the word count, each
\* of the next size words (fewer when the words run out), joined by spaces
WindowsOf(ws, size, ov) ==
  LET step  == size - ov
      n     == Len(ws)
      count == (n + step - 1) \div step
  IN  [k \in 1..count |->
         Join(SubSeq(ws, (k - 1) * step + 1, Min((k - 1) * step + size, n)))]

\* C1: with 0 <= overlap < windowSize the word-window chunkText returns, in
\* order, the windows that start at word indices 0, step, 2*step, ... for
\* every start index below the word count, each holding the next windowSize
\* words, fewer only when the words run out.
C1_WindowsAtEveryStep ==
  (pc = "done" /\ ValidConfig) =>
     chunks = WindowsOf(SplitWs(text), chunkSize, overlap)

\* a finished call with a positive overlap, several windows, the last short
C1_Witness ==
  /\ pc = "done"
  /\ ValidConfig
  /\ overlap > 0
  /\ Len(chunks) >= 3
  /\ Len(SplitWs(chunks[Len(chunks)])) < chunkSize

\* C2: a text of at most windowSize words (any valid overlap) gives exactly
\* one chunk, the input words joined by single spaces.
C2_ShortTextOneChunk ==
  (pc = "done" /\ ValidConfig /\ Len(SplitWs(text)) <= chunkSize) =>
     chunks = <<Join(SplitWs(text))>>

\* the last `ov` words of chunk k are the first `ov` words of chunk k + 1
BoundaryRepeated(cs, k, ov) ==
  LET a == SplitWs(cs[k])
      b == SplitWs(cs[k + 1])
  IN  /\ Len(a) >= ov
      /\ Len(b) >= ov
      /\ SubSeq(a, Len(a) - ov + 1, Len(a)) = SubSeq(b, 1, ov)

\* C3: the 20-word document with windowSize 10 and overlap 5 gives exactly
\* 3 chunks, the first two of 10 words, consecutive chunks repeating the
\* boundary words.
C3_TwentyWordsThreeChunks ==
  (pc = "done" /\ text = Doc20 /\ chunkSize = 10 /\ overlap = 5) =>
     /\ Len(chunks) = 3
     /\ Len(SplitWs(chunks[1])) = 10
     /\ Len(SplitWs(chunks[2])) = 10
     /\ \A k \in 1..2 : BoundaryRepeated(chunks, k, 5)

\* C4: a call with overlap >= windowSize ends in an InvalidConfiguration
\* failure and produces no chunk: it never runs the loop body and never
\* returns a list.
C4_InvalidConfigurationNoChunks ==
  (pc # "idle" /\ overlap >= chunkSize) => (chunks = <<>> /\ pc # "done")

\* C5: the empty text gives zero chunks, from the word-window chunkText and
\* from the character-bounded chunkText.
C5_EmptyTextNoChunks ==
  /\ (pc = "done" /\ ValidConfig /\ text = <<>>) => chunks = <<>>
  /\ (apiChunks # NoCall /\ apiChunks.text = <<>>) => apiChunks.chunks = <<>>

(***************************************************************************)
(* The hybrid search of the chat App over the documents table.             *)
(***************************************************************************)
SqrtScale == 10 * 10

\* the embedding vectors of the model, the zero vector among them
Vecs == {<<0, 0>>, <<1, 0>>, <<1, 1>>}

\* the (content, embedding) pairs a chunk can be stored with, and the
\* queries of the chat
RowChoices ==
  { <<<<"a">>, <<1, 0>>>>, <<<<"a">>, <<0, 0>>>>,
    <<<<"b">>, <<1, 1>>>>, <<<<"b">>, <<1, 0>>>>,
    <<<<"a", " ", "b">>, <<0, 0>>>>, <<<<"a", " ", "b">>, <<1, 1>>>> }
HybridQueries == {<<"a">>, <<"a", " ", "b">>}

\* a.reduce((sum, ai, i) => sum + ai * b[i], 0)
RECURSIVE DotProduct(_, _)
DotProduct(a, b) ==
  IF a = <<>> THEN 0 ELSE a[1] * b[1] + DotProduct(Tail(a), Tail(b))

\* the largest r in lo..hi with r * r <= m, by bisection
RECURSIVE SqrtBetween(_, _, _)
SqrtBetween(m, lo, hi) ==
  IF lo >= hi THEN lo
  ELSE LET mid == (lo + hi + 1) \div 2
       IN  IF mid * mid <= m THEN SqrtBetween(m, mid, hi)
           ELSE SqrtBetween(m, lo, mid - 1)

\* Math.sqrt(n) in units of 1/SqrtScale
SqrtFix(n) == SqrtBetween(n * SqrtScale * SqrtScale, 0, SqrtScale * (n + 1))

\* cosineSimilarity(a, b) = dotProduct / (magnitudeA * magnitudeB); a zero
\* magnitude makes the dot product zero too, and 0 / 0 is NaN
CosineSimilarity(a, b) ==
  LET dotProduct == DotProduct(a, b)
      magnitudeA == SqrtFix(DotProduct(a, a))
      magnitudeB == SqrtFix(DotProduct(b, b))
  IN  IF magnitudeA * magnitudeB = 0 THEN NaN
      ELSE Num((dotProduct * Scale * SqrtScale * SqrtScale)
                 \div (magnitudeA * magnitudeB))

Undefined == [undefined |-> TRUE]

\* (mutant) the BM25 score is read at the chunk's own position of the sorted
\* BM25 result
FindScoreByIndex(scores, content, index) ==
  IF index <= Len(scores) THEN scores[index].score ELSE Undefined

\* bm25Scores.find(bm25Doc => bm25Doc.doc === doc.content)?.score
FindScore(scores, content, index) ==
  LET hits == {k \in 1..Len(scores) : scores[k].doc = content}
  IN  IF hits = {} THEN Undefined
      ELSE scores[CHOOSE k \in hits : \A l \in hits : k <= l].score

\* x || 0: undefined, NaN and 0 give 0
OrZero(x) == IF x = Undefined THEN Num(0) ELSE IF x.nan THEN Num(0) ELSE x

\* Array.prototype.sort: the stable sort when the comparator is consistent;
\* with a NaN score the comparator is not, and the order is whatever the
\* engine's algorithm leaves, some permutation of the array
SortOutcomes(arr) ==
  IF \A k \in 1..Len(arr) : ~arr[k].score.nan
  THEN {Sort(arr)}
  ELSE {[k \in 1..Len(arr) |-> arr[p[k]]] : p \in Permutations(1..Len(arr))}

\* supabase.from('documents').insert([{content, embedding, metadata}])
StoreInsert ==
  /\ Len(rows) < MaxRows
  /\ \E row \in RowChoices :
       rows' = Append(rows, [id |-> Len(rows) + 1, content |-> row[1],
                             embedding |-> row[2]])
  /\ hybridOut' = NoCall
  /\ UNCHANGED <<bm25Vars, chunkVars, apiChunks,
               serverVars, ingestVars, uploads, chatVars>>

\* a render of App: const bm25 = new BM25().  Every state update of
\* handleSubmit renders App again, so the handlers of the next event close
\* over a new instance.
Render ==
  /\ documents # <<>> \/ idfCache # <<>>
  /\ documents' = <<>>
  /\ idfCache' = <<>>
  /\ UNCHANGED <<bm25Out, appVars, chunkVars, apiChunks,
               serverVars, ingestVars, uploads, chatVars>>

\* the array the last search handed to combinedScores.sort: its entries in
\* the order of the snapshot
UnsortedOf(out) ==
  [j \in 1..Len(out.documents) |->
     out.combinedScores[CHOOSE k \in 1..Len(out.combinedScores) :
                          out.combinedScores[k].id = out.documents[j].id]]

\* Array.prototype.sort is an algorithm: the array it was given by the call
\* before comes out in the order it came out then
SortRepeats(arr, sorted) ==
  (hybridOut.called /\ hybridOut.op = "search" /\ UnsortedOf(hybridOut) = arr)
    => sorted = hybridOut.combinedScores

\* searchDocuments(query, embedding) on the bm25 of the calling closure, the
\* select having succeeded.  The record of the call keeps, when the call
\* before it had the same query, vector and rows, what that call returned.
SearchDocumentsOn ==
  /\ \E query \in HybridQueries, embedding \in Vecs :
       LET docs == rows
           n == Len(docs)
           contents == [k \in 1..n |-> docs[k].content]
           repeated == /\ hybridOut.called
                       /\ hybridOut.op = "search"
                       /\ hybridOut.query = query
                       /\ hybridOut.embedding = embedding
                       /\ hybridOut.documents = docs
       IN  \E embeddingScores \in
                {[k \in 1..n |-> [id |-> docs[k].id, content |-> docs[k].content,
                                  score |-> CosineSimilarity(embedding, docs[k].embedding)]]},
              bm25Scores \in {Search(query, contents, idfCache)} :
            \E combinedScores \in
                 {[k \in 1..n |->
                     [id |-> docs[k].id, content |-> docs[k].content,
                      score |-> NumAdd(embeddingScores[k].score,
                                       OrZero(FindScore(bm25Scores, docs[k].content, k)))]]} :
           /\ documents' = contents
           /\ idfCache' = CacheAfter(query, contents, idfCache)
           /\ \E sorted \in SortOutcomes(combinedScores) :
                /\ SortRepeats(combinedScores, sorted)
                /\ hybridOut' = [called |-> TRUE, op |-> "search",
                                 query |-> query,
                                 embedding |-> embedding, documents |-> docs,
                                 embeddingScores |-> embeddingScores,
                                 bm25Scores |-> bm25Scores,
                                 combinedScores |-> sorted,
                                 repeated |-> repeated,
                                 previous |-> IF repeated
                                              THEN hybridOut.combinedScores
                                              ELSE <<>>]
  /\ UNCHANGED <<rows, bm25Out, chunkVars, apiChunks,
               serverVars, ingestVars, uploads, chatVars>>

\* searchDocuments as the App calls it: once in the handleSubmit of one
\* render, on that render's bm25, which no earlier call has touched
SearchDocuments ==
  /\ documents = <<>>
  /\ idfCache = <<>>
  /\ SearchDocumentsOn

\* searchDocuments, the select having failed: if (error) throw error
SearchDocumentsError ==
  /\ hybridOut' = [called |-> TRUE, op |-> "error"]
  /\ UNCHANGED <<rows, bm25Vars, chunkVars, apiChunks,
               serverVars, ingestVars, uploads, chatVars>>

NextHybrid ==
  \/ StoreInsert
  \/ Render
  \/ SearchDocuments
  \/ SearchDocumentsError

SpecHybrid == Init /\ [][NextHybrid]_vars

(***************************************************************************)
(* One BM25 instance kept over several hybrid searches of a fixed corpus:  *)
(* the App with bm25 held across renders, as the claims about "the same    *)
(* instance" take it.  The corpus is filled before the instance is used.   *)
(***************************************************************************)
\* an insert into documents while the instance is still unused
CorpusInsert ==
  /\ documents = <<>>
  /\ idfCache = <<>>
  /\ StoreInsert

\* searchDocuments on an instance that earlier searches may have used
SearchDocumentsAgain == SearchDocumentsOn

NextSession ==
  \/ CorpusInsert
  \/ SearchDocumentsAgain
  \/ SearchDocumentsError

SpecSession == Init /\ [][NextSession]_vars

(***************************************************************************)
(* Properties of the BM25 class, checked under SpecBM25.                   *)
(***************************************************************************)
Searched == bm25Out.called /\ bm25Out.op = "search"

\* the score of documents[j] in the search just made; after the search the
\* cache holds, for every term of the query, the idf the search used
ScoreOfDoc(j) == Score(bm25Out.query, documents[j], documents, idfCache)

\* C6: the idf a search uses for a term is the idf computed from the current
\* document list; a value cached under an earlier corpus is never used once
\* the document count or the term's document frequency has changed.
C6_IdfNeverStale ==
  Searched =>
    \A t \in DOMAIN bm25Out.idf : bm25Out.idf[t] = IdfValue(documents, t)

\* C7: search returns one entry per indexed document, by score descending,
\* documents of equal score in the order they were added.
C7_SearchSortedStable ==
  Searched =>
    LET r == bm25Out.result
        n == Len(documents)
    IN  /\ Len(r) = n
        /\ \E p \in Permutations(1..n) :
             /\ \A k \in 1..n :
                  r[k] = [doc |-> documents[p[k]], score |-> ScoreOfDoc(p[k])]
             /\ \A k, l \in 1..n :
                  k < l =>
                    \/ ScoreOfDoc(p[k]).v > ScoreOfDoc(p[l]).v
                    \/ /\ ScoreOfDoc(p[k]).v = ScoreOfDoc(p[l]).v
                       /\ p[k] < p[l]

\* a search over three documents where two different documents tie and a
\* later document outscores an earlier one
C7_Witness ==
  /\ Searched
  /\ Len(documents) >= 3
  /\ \E j, k \in 1..Len(documents) :
       j < k /\ documents[j] # documents[k] /\ ScoreOfDoc(j) = ScoreOfDoc(k)
  /\ \E j, k \in 1..Len(documents) :
       j < k /\ ScoreOfDoc(j).v < ScoreOfDoc(k).v

\* no whitespace-split word of doc equals a term of query
NoQueryWord(query, doc) ==
  LET ws == SplitWs(doc)
      ts == SplitWs(query)
  IN  \A k \in 1..Len(ws), l \in 1..Len(ts) : ws[k] # ts[l]

\* C8: in an index of a single chunk none of whose whitespace-split words
\* equals a query term, the chunk's BM25 score for the query is exactly 0.
C8_NoQueryTermScoresZero ==
  (Searched /\ Len(documents) = 1 /\ NoQueryWord(bm25Out.query, documents[1])) =>
     /\ Len(bm25Out.result) = 1
     /\ bm25Out.result[1].score = Num(0)

\* such a search where a query term still occurs inside a word of the chunk,
\* so that the term's idf counts the chunk
C8_Witness ==
  /\ Searched
  /\ Len(documents) = 1
  /\ NoQueryWord(bm25Out.query, documents[1])
  /\ \E t \in DOMAIN bm25Out.idf : Includes(documents[1], t) /\ bm25Out.idf[t] > 0
  /\ bm25Out.result[1].score = Num(0)

(***************************************************************************)
(* Properties of the hybrid search, checked under SpecHybrid.              *)
(***************************************************************************)
HybridSearched == hybridOut.called /\ hybridOut.op = "search"

IsZeroVector(v) == \A k \in 1..Len(v) : v[k] = 0

\* C9: cosineSimilarity gives 0 whenever the query vector or the chunk
\* vector has norm 0, and no NaN reaches the combined scores and their sort.
C9_ZeroNormSimilarityIsZero ==
  HybridSearched =>
    \A k \in 1..Len(hybridOut.documents) :
      /\ (IsZeroVector(hybridOut.embedding)
            \/ IsZeroVector(hybridOut.documents[k].embedding))
           => hybridOut.embeddingScores[k].score = Num(0)
      /\ ~hybridOut.embeddingScores[k].score.nan
      /\ ~hybridOut.combinedScores[k].score.nan

\* the BM25 score of stored chunk j for the query of the last hybrid search,
\* on the index the search built from the snapshot
LexicalScore(j) ==
  LET docs == hybridOut.documents
  IN  Score(hybridOut.query, docs[j].content,
            [k \in 1..Len(docs) |-> docs[k].content], <<>>)

\* the similarity of stored chunk j to the query vector
VectorScore(j) ==
  CosineSimilarity(hybridOut.embedding, hybridOut.documents[j].embedding)

\* C10: searchDocuments returns exactly one entry for every chunk of the
\* snapshot pulled from the store, none dropped and none twice, and the
\* entry's score is the chunk's vector similarity plus its BM25 score.
C10_OneEntryPerChunkWithSum ==
  HybridSearched =>
    LET docs == hybridOut.documents
        out  == hybridOut.combinedScores
    IN  /\ Len(out) = Len(docs)
        /\ \A j \in 1..Len(docs) :
             LET hits == {k \in 1..Len(out) : out[k].id = docs[j].id}
             IN  /\ Cardinality(hits) = 1
                 /\ \A k \in hits :
                      /\ out[k].content = docs[j].content
                      /\ out[k].score = NumAdd(VectorScore(j), LexicalScore(j))

\* a hybrid search over two chunks that returns them in the other order than
\* the store did, one of them with a positive similarity and BM25 score
C10_Witness ==
  /\ HybridSearched
  /\ Len(hybridOut.documents) >= 2
  /\ hybridOut.combinedScores[1].id # hybridOut.documents[1].id
  /\ \E j \in 1..Len(hybridOut.documents) :
       /\ ~VectorScore(j).nan
       /\ VectorScore(j).v > 0
       /\ LexicalScore(j).v > 0
  /\ \A k \in 1..Len(hybridOut.combinedScores) : ~hybridOut.combinedScores[k].score.nan

\* the position of the chunk with this id in the snapshot of the last search
PositionOf(id) ==
  CHOOSE j \in 1..Len(hybridOut.documents) : hybridOut.documents[j].id = id

\* entry x stands rightly before entry y: a higher combined score, or the
\* same score and an earlier place in the store's answer
RanksBefore(x, y) ==
  /\ ~x.score.nan
  /\ ~y.score.nan
  /\ \/ x.score.v > y.score.v
     \/ x.score.v = y.score.v /\ PositionOf(x.id) < PositionOf(y.id)

\* C11: the list searchDocuments returns is ordered by combined score
\* descending, chunks of equal combined score in the order the store
\* returned them.
C11_CombinedSortedStable ==
  HybridSearched =>
    \A k, l \in 1..Len(hybridOut.combinedScores) :
      k < l => RanksBefore(hybridOut.combinedScores[k], hybridOut.combinedScores[l])

\* the order of C11 holds in every search none of whose combined scores is NaN
SortedWhenNoScoreIsNaN ==
  (HybridSearched
     /\ \A k \in 1..Len(hybridOut.combinedScores) : ~hybridOut.combinedScores[k].score.nan)
    => \A k, l \in 1..Len(hybridOut.combinedScores) :
         k < l => RanksBefore(hybridOut.combinedScores[k], hybridOut.combinedScores[l])

\* C12: with the rows, the query and the query vector unchanged, a hybrid
\* search that follows another one on the same BM25 instance returns the same
\* chunks in the same order with the same scores, whatever was searched
\* before the two
C12_RepeatedSearchSameResult ==
  (HybridSearched /\ hybridOut.repeated)
    => hybridOut.combinedScores = hybridOut.previous

\* the second of two equal searches over two chunks or more, on an instance
\* whose cache holds a term of an earlier, different query, with a positive
\* combined score
C12_Witness ==
  /\ HybridSearched
  /\ hybridOut.repeated
  /\ Len(hybridOut.documents) >= 2
  /\ \E t \in DOMAIN idfCache : t \notin TermsOf(hybridOut.query, documents)
  /\ \E k \in 1..Len(hybridOut.combinedScores) :
       /\ ~hybridOut.combinedScores[k].score.nan
       /\ hybridOut.combinedScores[k].score.v > 0

(***************************************************************************)
(* The server: netlify/functions/api.ts, and the /query of server.js.      *)
(***************************************************************************)
\* the k of vectorStore.similaritySearch(query, 5)
TopK == 5

\* the documentId values uuidv4() gives the uploads
ScopeIds == {"s1", "s2"}

\* initVectorStore: the await resolved and vectorStore is assigned
InitVectorStoreResolves ==
  /\ vectorStore = "pending"
  /\ vectorStore' = "set"
  /\ UNCHANGED <<pineconeIndex, adds, documentMetadata, response, chunkVars, apiChunks, bm25Vars,
                 appVars, ingestVars, uploads, chatVars>>

\* initVectorStore: the await threw; the catch logs the error and returns,
\* and vectorStore stays undefined
InitVectorStoreRejects ==
  /\ vectorStore = "pending"
  /\ vectorStore' = "failed"
  /\ UNCHANGED <<pineconeIndex, adds, documentMetadata, response, chunkVars, apiChunks, bm25Vars,
                 appVars, ingestVars, uploads, chatVars>>

\* the index with one more vector, the pos-th best match of the query
InsertAt(seq, pos, d) ==
  SubSeq(seq, 1, pos - 1) \o <<d>> \o SubSeq(seq, pos, Len(seq))

\* vectorStore.addDocuments(documents) of an upload, resolved: one more
\* vector with the upload's documentId, anywhere in the ranking of the query
IndexUpsert ==
  /\ vectorStore = "set"
  /\ Len(pineconeIndex) < MaxIndex
  /\ \E d \in ScopeIds, pos \in 1..(Len(pineconeIndex) + 1) :
       pineconeIndex' = InsertAt(pineconeIndex, pos, d)
  /\ response' = NoCall
  /\ UNCHANGED <<vectorStore, adds, documentMetadata, chunkVars, apiChunks, bm25Vars, appVars,
                 ingestVars, uploads, chatVars>>

\* vectorStore.similaritySearch(query, k), resolved: the k best matches, best
\* first; rank tells the vectors of one document apart
SimilaritySearch(k) ==
  [j \in 1..Min(k, Len(pineconeIndex)) |->
     [rank |-> j, metadata |-> [documentId |-> pineconeIndex[j]]]]

\* (mutant) a filter that lets every result through
FilterResultsAll(results, documentId) == results

\* results.filter(doc => doc.metadata.documentId === documentId)
FilterResults(results, documentId) ==
  SelectSeq(results, LAMBDA doc : doc.metadata.documentId = documentId)

\* a 400 response
BadRequest(handler, error) ==
  [called |-> TRUE, handler |-> handler, statusCode |-> 400, error |-> error,
   search |-> "none"]

\* (mutant) a catch that answers a failed search with an empty result list
SearchFailedAsEmpty(handler, search) ==
  [called |-> TRUE, handler |-> handler, statusCode |-> 200, results |-> <<>>,
   search |-> search, vectorStore |-> vectorStore]

\* the catch around similaritySearch: search is "threw" when vectorStore was
\* undefined (a TypeError) and "rejected" when the search itself failed
SearchFailed(handler, search) ==
  [called |-> TRUE, handler |-> handler, statusCode |-> 500,
   error |-> "Failed to perform similarity search",
   search |-> search, vectorStore |-> vectorStore]

\* the outcomes of await vectorStore.similaritySearch(...)
SearchOutcomes ==
  IF vectorStore = "set" THEN {"resolved", "rejected"} ELSE {"threw"}

\* what event.body can hold: text that is not JSON, the JSON value null, or
\* an object; a query or documentId that is absent or falsy is ""
QueryBodies ==
  [json : {"object"}, query : {"", "q"}, documentId : {""} \cup ScopeIds]
    \cup {[json |-> j, query |-> "", documentId |-> ""] :
            j \in {"malformed", "null"}}

\* const { query, documentId } = body throws a TypeError when body is null;
\* no try is around it, the promise of the handler rejects and no response
\* is built
Unhandled(handler, error) ==
  [called |-> TRUE, handler |-> handler, statusCode |-> 0, error |-> error,
   search |-> "none"]

\* queryHandler of api.ts
QueryHandler ==
  /\ \E body \in QueryBodies, search \in SearchOutcomes :
       response' =
         [request |-> body] @@
         (IF body.json = "malformed"
            THEN BadRequest("queryHandler", "Invalid JSON")
          ELSE IF body.json = "null"
            THEN Unhandled("queryHandler", "TypeError")
          ELSE IF body.query = ""
            THEN BadRequest("queryHandler", "Query is required")
          ELSE IF body.documentId = ""
            THEN BadRequest("queryHandler", "Document ID is required")
          ELSE IF search # "resolved"
            THEN SearchFailed("queryHandler", search)
          ELSE [called |-> TRUE, handler |-> "queryHandler",
                statusCode |-> 200,
                results |-> FilterResults(SimilaritySearch(TopK),
                                          body.documentId),
                documentId |-> body.documentId,
                search |-> search, vectorStore |-> vectorStore])
  /\ UNCHANGED <<vectorStore, pineconeIndex, adds, documentMetadata, chunkVars, apiChunks,
                 bm25Vars, appVars, ingestVars, uploads, chatVars>>

\* app.post("/query") of server.js
AppPostQuery ==
  /\ \E query \in {"", "q"}, search \in SearchOutcomes :
       response' =
         IF query = "" THEN BadRequest("/query", "Query is required")
         ELSE IF search # "resolved" THEN SearchFailed("/query", search)
         ELSE [called |-> TRUE, handler |-> "/query", statusCode |-> 200,
               results |-> SimilaritySearch(TopK),
               search |-> search, vectorStore |-> vectorStore]
  /\ UNCHANGED <<vectorStore, pineconeIndex, adds, documentMetadata, chunkVars, apiChunks,
                 bm25Vars, appVars, ingestVars, uploads, chatVars>>

NextQuery ==
  \/ InitVectorStoreResolves
  \/ InitVectorStoreRejects
  \/ IndexUpsert
  \/ QueryHandler
  \/ AppPostQuery

SpecQuery == Init /\ [][NextQuery]_vars

\* the last response is a 200 of queryHandler
QueryAnswered ==
  /\ response.called
  /\ response.handler = "queryHandler"
  /\ response.statusCode = 200

\* C13: a 200 response of queryHandler holds only chunks whose
\* metadata.documentId is the documentId of the request
C13_OnlyRequestedDocument ==
  QueryAnswered =>
    \A k \in 1..Len(response.results) :
      response.results[k].metadata.documentId = response.documentId

\* an answer with a chunk of the requested document, taken from the best
\* TopK of an index that has a chunk of the other document among them
C13_Witness ==
  /\ QueryAnswered
  /\ response.results # <<>>
  /\ \E j \in 1..Min(TopK, Len(pineconeIndex)) :
       pineconeIndex[j] # response.documentId

\* the ranks of the vectors of a document, best first
RanksOf(documentId) ==
  SelectSeq([j \in 1..Len(pineconeIndex) |-> j],
            LAMBDA j : pineconeIndex[j] = documentId)

\* C14: the scope filter comes before the cut to TopK: with k chunks of the
\* requested document in the index, the answer is the min(TopK, k) best of
\* them, also when chunks of other documents rank higher
C14_FilterBeforeTopK ==
  QueryAnswered =>
    LET inScope == RanksOf(response.documentId)
    IN  [k \in 1..Len(response.results) |-> response.results[k].rank]
          = SubSeq(inScope, 1, Min(TopK, Len(inScope)))

\* the last response is one of a query handler
QueryResponded ==
  /\ response.called
  /\ response.handler \in {"queryHandler", "/query"}

\* C17: a query whose similarity search failed is answered with status 500
\* and no result list; a 200, with an empty list or not, is only ever the
\* answer of a search that succeeded
C17_FailedSearchIsError ==
  QueryResponded =>
    /\ response.search \in {"threw", "rejected"} =>
         (response.statusCode = 500 /\ "results" \notin DOMAIN response)
    /\ response.statusCode = 200 => response.search = "resolved"

\* a query over a non-empty index whose search was rejected
C17_Witness ==
  /\ QueryResponded
  /\ response.search = "rejected"
  /\ response.statusCode = 500
  /\ pineconeIndex # <<>>

\* a 200 with an empty result list, of a search that succeeded
EmptyAnswer ==
  /\ QueryResponded
  /\ response.statusCode = 200
  /\ response.results = <<>>

(***************************************************************************)
(* uploadHandler of api.ts, one upload at a time.                          *)
(***************************************************************************)
\* the catch of uploadHandler
UploadFailed ==
  [called |-> TRUE, handler |-> "uploadHandler", statusCode |-> 500,
   error |-> "Failed to process document"]

\* the documentIds some vector of the index or some metadata entry carries
UsedIds ==
  {pineconeIndex[j] : j \in 1..Len(pineconeIndex)}
    \cup {documentMetadata[j] : j \in 1..Len(documentMetadata)}

\* uploadHandler up to the await of Promise.all: chunks.map has called
\* vectorStore.addDocuments once per chunk.  With vectorStore undefined the
\* first call throws a TypeError into the catch.
UploadHandler ==
  /\ adds = NoCall
  /\ \E multerError \in BOOLEAN, hasFile \in BOOLEAN,
        extraction \in {"throws", "empty", "text"},
        n \in 1..MaxParts, documentId \in ScopeIds \ UsedIds :
       IF multerError
         THEN /\ response' = BadRequest("uploadHandler", "Error uploading file")
              /\ adds' = adds
       ELSE IF ~hasFile
         THEN /\ response' = BadRequest("uploadHandler", "No file uploaded")
              /\ adds' = adds
       ELSE IF extraction = "throws"
         THEN /\ response' = UploadFailed
              /\ adds' = adds
       ELSE IF extraction = "empty"
         THEN /\ response' = BadRequest("uploadHandler",
                                        "Could not extract text from the file.")
              /\ adds' = adds
       ELSE IF vectorStore # "set"
         THEN /\ response' = UploadFailed @@ [vectorStore |-> vectorStore]
              /\ adds' = adds
       ELSE /\ Len(pineconeIndex) + n <= MaxIndex
            /\ adds' = [called |-> TRUE, documentId |-> documentId,
                        calls |-> [k \in 1..n |-> "inflight"],
                        responses |-> 0]
            /\ response' = NoCall
  /\ UNCHANGED <<vectorStore, pineconeIndex, documentMetadata, chunkVars,
                 apiChunks, bm25Vars, appVars, ingestVars, uploads, chatVars>>

\* (mutant) a catch that runs for every rejected call
AwaitThrowsEach(a) == TRUE

\* the await of Promise.all throws into the catch when a call rejects and none
\* has rejected before: Promise.all settles once, with its first rejection
AwaitThrows(a) == \A j \in DOMAIN a.calls : a.calls[j] # "rejected"

\* (mutant) a save that writes the new entry alone
PushedAlone(metadata, id) == <<id>>

\* metadata.push({ id: documentId, name }) on the loaded list, the list that
\* saveDocumentMetadata writes
Pushed(metadata, id) == Append(metadata, id)

\* one vectorStore.addDocuments call resolves: its vector is in the index.
\* When it was the last one, Promise.all resolves: the metadata is loaded,
\* extended and saved in one synchronous stretch and the 200 is sent; a
\* failing read or write of the file goes to the catch instead.
AddDocumentsResolves ==
  /\ adds.called
  /\ \E k \in DOMAIN adds.calls, pos \in 1..(Len(pineconeIndex) + 1),
        fsFails \in BOOLEAN :
       /\ adds.calls[k] = "inflight"
       /\ pineconeIndex' = InsertAt(pineconeIndex, pos, adds.documentId)
       /\ LET calls == [adds.calls EXCEPT ![k] = "resolved"]
              all == \A j \in DOMAIN calls : calls[j] = "resolved"
          IN  IF all
                THEN /\ adds' = [adds EXCEPT !.calls = calls, !.responses = @ + 1]
                     /\ IF fsFails
                          THEN /\ documentMetadata' = documentMetadata
                               /\ response' =
                                    UploadFailed @@ [vectorStore |-> vectorStore]
                          ELSE /\ documentMetadata' =
                                    Pushed(documentMetadata, adds.documentId)
                               /\ response' =
                                    [called |-> TRUE, handler |-> "uploadHandler",
                                     statusCode |-> 200,
                                     documentId |-> adds.documentId,
                                     vectorStore |-> vectorStore]
                ELSE /\ ~fsFails
                     /\ adds' = [adds EXCEPT !.calls = calls]
                     /\ documentMetadata' = documentMetadata
                     /\ response' = NoCall
  /\ UNCHANGED <<vectorStore, chunkVars, apiChunks, bm25Vars, appVars,
                 ingestVars, uploads, chatVars>>

\* one vectorStore.addDocuments call rejects: nothing is added.  The first
\* rejection rejects Promise.all and the catch answers 500; the other calls
\* go on.
AddDocumentsRejects ==
  /\ adds.called
  /\ \E k \in DOMAIN adds.calls :
       /\ adds.calls[k] = "inflight"
       /\ adds' = [adds EXCEPT !.calls[k] = "rejected",
                               !.responses = IF AwaitThrows(adds) THEN @ + 1 ELSE @]
  /\ response' = IF AwaitThrows(adds)
                 THEN UploadFailed @@ [vectorStore |-> vectorStore]
                 ELSE response
  /\ UNCHANGED <<vectorStore, pineconeIndex, documentMetadata, chunkVars,
                 apiChunks, bm25Vars, appVars, ingestVars, uploads, chatVars>>

\* every addDocuments call of the upload has settled and the answer is out
UploadHandlerSettled ==
  /\ adds.called
  /\ adds.responses > 0
  /\ \A k \in DOMAIN adds.calls : adds.calls[k] # "inflight"
  /\ adds' = NoCall
  /\ UNCHANGED <<vectorStore, pineconeIndex, documentMetadata, response,
                 chunkVars, apiChunks, bm25Vars, appVars, ingestVars, uploads, chatVars>>

NextServer ==
  \/ InitVectorStoreResolves
  \/ InitVectorStoreRejects
  \/ UploadHandler
  \/ AddDocumentsResolves
  \/ AddDocumentsRejects
  \/ UploadHandlerSettled
  \/ QueryHandler

SpecServer == Init /\ [][NextServer]_vars

\* C18: no upload and no query is processed against an unset vectorStore: a
\* handler that gets as far as the vector store finds it set
C18_NoRequestOnUnsetStore ==
  (response.called /\ "vectorStore" \in DOMAIN response)
    => response.vectorStore = "set"

\* a request answered after initVectorStore failed is answered like any failed
\* search or upload, by the handler's own catch
ServedAfterFailedInit ==
  (response.called /\ "vectorStore" \in DOMAIN response
     /\ response.vectorStore = "failed")
    => response.statusCode = 500

(***************************************************************************)
(* handleFileUpload of the App, one file at a time.                        *)
(***************************************************************************)
\* the maxConcurrency given to PineconeStore.fromExistingIndex
MaxConcurrency == 5

\* the generateEmbedding calls that have not settled
InFlight == {k \in DOMAIN embeddings : embeddings[k] = "inflight"}

\* the catch of handleFileUpload: setError and the message appended
UploadError(error) ==
  [called |-> TRUE, role |-> "system", content |-> "Error uploading",
   error |-> error]

\* handleFileUpload up to the await of Promise.all: textChunks.map has called
\* generateEmbedding once per chunk; or extractTextFromFile threw
HandleFileUpload ==
  /\ uploadPc = "idle"
  /\ \E extracted \in BOOLEAN, n \in 1..MaxChunks :
       IF extracted
         THEN /\ uploadPc' = "embedding"
              /\ embeddings' = [k \in 1..n |-> "inflight"]
              /\ uploadMessage' = NoCall
         ELSE /\ uploadPc' = "failed"
              /\ embeddings' = <<>>
              /\ uploadMessage' = UploadError("Failed to extract text")
  /\ insertI' = 0
  /\ stored' = {}
  /\ UNCHANGED <<chunkVars, apiChunks, bm25Vars, appVars, serverVars, uploads, chatVars>>

\* one generateEmbedding call resolves.  When it was the last one, Promise.all
\* resolves and the loop awaits its first insert.
EmbeddingResolves ==
  /\ \E k \in InFlight :
       /\ embeddings' = [embeddings EXCEPT ![k] = "resolved"]
       /\ uploadPc' = IF uploadPc = "embedding" /\ InFlight = {k}
                        /\ \A j \in DOMAIN embeddings :
                             j # k => embeddings[j] = "resolved"
                      THEN "inserting" ELSE uploadPc
  /\ UNCHANGED <<insertI, stored, uploadMessage, chunkVars, apiChunks,
                 bm25Vars, appVars, serverVars, uploads, chatVars>>

\* one generateEmbedding call throws.  The first one rejects Promise.all and
\* the catch reports; the other calls go on.
EmbeddingRejects ==
  /\ \E k \in InFlight :
       embeddings' = [embeddings EXCEPT ![k] = "rejected"]
  /\ IF uploadPc = "embedding"
       THEN /\ uploadPc' = "failed"
            /\ uploadMessage' = UploadError("Failed to generate embeddings")
       ELSE UNCHANGED <<uploadPc, uploadMessage, uploads, chatVars>>
  /\ UNCHANGED <<insertI, stored, chunkVars, apiChunks, bm25Vars, appVars,
                 serverVars, uploads, chatVars>>

\* the insert of chunk i returns without error: the row is in documents; after
\* the last chunk the success message is appended
InsertSucceeds ==
  /\ uploadPc = "inserting"
  /\ stored' = stored \cup {insertI}
  /\ insertI' = insertI + 1
  /\ IF insertI + 1 < Len(embeddings)
       THEN UNCHANGED <<uploadPc, uploadMessage, uploads, chatVars>>
       ELSE /\ uploadPc' = "succeeded"
            /\ uploadMessage' =
                 [called |-> TRUE, role |-> "system",
                  content |-> "Successfully uploaded and processed",
                  chunks |-> Len(embeddings)]
  /\ UNCHANGED <<embeddings, chunkVars, apiChunks, bm25Vars, appVars,
                 serverVars, uploads, chatVars>>

\* the insert of chunk i returns uploadError: if (uploadError) throw uploadError
InsertFails ==
  /\ uploadPc = "inserting"
  /\ uploadPc' = "failed"
  /\ uploadMessage' = UploadError("uploadError")
  /\ UNCHANGED <<embeddings, insertI, stored, chunkVars, apiChunks, bm25Vars,
                 appVars, serverVars, uploads, chatVars>>

\* the upload is over and every embedding call has settled: the next file
FileUploadOver ==
  /\ uploadPc \in {"succeeded", "failed"}
  /\ InFlight = {}
  /\ uploadPc' = "idle"
  /\ UNCHANGED <<embeddings, insertI, stored, uploadMessage, chunkVars,
                 apiChunks, bm25Vars, appVars, serverVars, uploads, chatVars>>

NextIngest ==
  \/ HandleFileUpload
  \/ EmbeddingResolves
  \/ EmbeddingRejects
  \/ InsertSucceeds
  \/ InsertFails
  \/ FileUploadOver

SpecIngest == Init /\ [][NextIngest]_vars

\* the file was chunked and then an embedding or an insert failed
IngestFailed ==
  /\ uploadPc = "failed"
  /\ embeddings # <<>>

\* C15: an ingest in which the embedding or the store write of a chunk fails
\* ends in a failure that reports how many chunks are committed, and that
\* number is the number of the file's chunks in the store at that moment
C15_FailureReportsCommitted ==
  IngestFailed =>
    /\ "committed" \in DOMAIN uploadMessage
    /\ uploadMessage.committed = Cardinality(stored)

\* every failed ingest does end with the error message, and a failed insert
\* leaves the chunks before it in the store
FailureLeavesEarlierChunks ==
  IngestFailed =>
    /\ uploadMessage.called
    /\ uploadMessage.content = "Error uploading"
    /\ stored = 0..(insertI - 1)

\* C16: in the ingest of a file of 3 chunks in which the embedding of chunk 2
\* fails, exactly chunk 1 is committed, the failure reports 1 committed chunk,
\* and no later chunk is committed
C16_SecondEmbeddingFails ==
  (IngestFailed /\ Len(embeddings) = 3 /\ embeddings[2] = "rejected"
     /\ embeddings[1] # "rejected" /\ embeddings[3] # "rejected")
    => /\ stored = {0}
       /\ "committed" \in DOMAIN uploadMessage
       /\ uploadMessage.committed = 1

\* after a failed embedding no chunk of the file is committed, the failing
\* one and the later ones included
NoChunkAfterFailedEmbedding ==
  (\E k \in DOMAIN embeddings : embeddings[k] = "rejected") => stored = {}

\* C19: within one ingest at most MaxConcurrency embedding requests are in
\* flight at any time, however many chunks the file has
C19_AtMostFiveInFlight ==
  Cardinality(InFlight) <= MaxConcurrency

\* the documents in which the term is a word, those with a term frequency
\* other than 0
WordDocs(docs, term) ==
  {j \in 1..Len(docs) : TermCount(term, docs[j]) > 0}

\* C20: the document frequency n in the idf of a term of a search is the
\* number of documents in which the term occurs as a whitespace-split word,
\* the documents whose term frequency for it is not 0
C20_DocumentFrequencyCountsWords ==
  Searched =>
    \A t \in DOMAIN bm25Out.idf :
      ContainingDocs(documents, t) = Cardinality(WordDocs(documents, t))

\* n is never less than the number of documents that have the term as a word
DocumentFrequencyCoversWords ==
  Searched =>
    \A t \in DOMAIN bm25Out.idf :
      ContainingDocs(documents, t) >= Cardinality(WordDocs(documents, t))

\* the query is q1, a space, q2
Concatenates(query, q1, q2) == query = q1 \o <<" ">> \o q2

\* C21: the BM25 score has one contribution per element of the query's term
\* list: the score of a query made of two term lists is the sum of the scores
\* of the two, so a term the query repeats counts once per occurrence
C21_ScoreAdditiveOverTerms ==
  Searched =>
    \A q1, q2 \in Queries :
      Concatenates(bm25Out.query, q1, q2) =>
        \A k \in 1..Len(bm25Out.result) :
          bm25Out.result[k].score.v =
            Score(q1, bm25Out.result[k].doc, documents, idfCache).v
              + Score(q2, bm25Out.result[k].doc, documents, idfCache).v

\* a search for "a a" that gives some document a positive score
C21_Witness ==
  /\ Searched
  /\ bm25Out.query = <<"a", " ", "a">>
  /\ \E k \in 1..Len(bm25Out.result) : bm25Out.result[k].score.v > 0

(***************************************************************************)
(* Properties of the character-bounded chunkText, checked under SpecChunk. *)
(***************************************************************************)
\* the words of a returned chunk
WordsOfChunk(c) == SplitSpace(c)

\* C22: a word joins the current chunk exactly when the chunk's length, the
\* word's length and 1 together are at most maxTokens, and otherwise the
\* chunk is flushed and the word starts the next one; so every chunk of more
\* than one word is at most maxTokens characters long
C22_AppendExactlyWhenFits ==
  apiChunks.called =>
    LET cs == apiChunks.chunks
        m == apiChunks.maxTokens
    IN  /\ \A k \in 1..Len(cs) :
             LET ws == WordsOfChunk(cs[k])
             IN  /\ \A l \in 2..Len(ws) :
                      Len(Join(SubSeq(ws, 1, l - 1))) + Len(ws[l]) + 1 <= m
                 /\ Len(ws) > 1 => Len(cs[k]) <= m
        /\ \A k \in 1..(Len(cs) - 1) :
             Len(cs[k]) + Len(WordsOfChunk(cs[k + 1])[1]) + 1 > m

\* a call that flushed a chunk of more than one word
C22_Witness ==
  /\ apiChunks.called
  /\ Len(apiChunks.chunks) >= 2
  /\ \E k \in 1..Len(apiChunks.chunks) :
       /\ Len(WordsOfChunk(apiChunks.chunks[k])) > 1
       /\ Len(apiChunks.chunks[k]) = apiChunks.maxTokens

\* C23: for a text that is not empty, no chunk the character-bounded
\* chunkText returns is the empty string, also when the first word is
\* maxTokens long or longer
C23_NoEmptyChunk ==
  (apiChunks.called /\ apiChunks.text # <<>>) =>
    \A k \in 1..Len(apiChunks.chunks) : apiChunks.chunks[k] # <<>>

\* an empty chunk can only come first, flushed before a first word that does
\* not fit, or stand for an empty word of the text
EmptyChunkOnlyFromFlushOrEmptyWord ==
  apiChunks.called =>
    \A k \in 1..Len(apiChunks.chunks) :
      apiChunks.chunks[k] = <<>> =>
        \/ k = 1
        \/ \E l \in 1..Len(SplitSpace(apiChunks.text)) :
             SplitSpace(apiChunks.text)[l] = <<>>

\* C24: the chunks of the character-bounded chunkText, joined with a single
\* space, are the text again
C24_JoinedChunksAreTheText ==
  apiChunks.called => Join(apiChunks.chunks) = apiChunks.text

\* the first word fits into the empty chunk, so that nothing is flushed
\* before it
FirstWordFits ==
  Len(SplitSpace(apiChunks.text)[1]) + 1 <= apiChunks.maxTokens

\* the round trip of C24 holds in every call whose first word fits, and in
\* every other call the join is the text behind one more space
JoinedChunksWhenFirstWordFits ==
  apiChunks.called =>
    IF FirstWordFits
    THEN Join(apiChunks.chunks) = apiChunks.text
    ELSE Join(apiChunks.chunks) = <<" ">> \o apiChunks.text

\* the words of the first chunk, then those of every later chunk behind its
\* first ov words, from chunk k on
RECURSIVE RebuildFrom(_, _, _)
RebuildFrom(cs, k, ov) ==
  IF k > Len(cs) THEN <<>>
  ELSE LET ws == SplitWs(cs[k])
       IN  (IF k = 1 THEN ws ELSE SubSeq(ws, ov + 1, Len(ws)))
             \o RebuildFrom(cs, k + 1, ov)

\* C25: with 0 <= overlap < windowSize the chunks of the word-window
\* chunkText cover the text without a gap: every word of the text is in some
\* chunk at its place, and the first chunk followed by every later chunk
\* without its first overlap words is the word sequence of the text
C25_ChunksCoverTheText ==
  (pc = "done" /\ ValidConfig) =>
    LET step == chunkSize - overlap
    IN  /\ \A j \in 1..Len(words) :
             \E k \in 1..Len(chunks) :
               LET ws == SplitWs(chunks[k])
               IN  /\ (k - 1) * step < j
                   /\ j <= (k - 1) * step + Len(ws)
                   /\ ws[j - (k - 1) * step] = words[j]
        /\ RebuildFrom(chunks, 1, overlap) = words

\* a finished call with a positive overlap and three chunks or more, the last
\* of them no longer than the overlap
C25_Witness ==
  /\ pc = "done"
  /\ ValidConfig
  /\ overlap > 0
  /\ Len(chunks) >= 3
  /\ Len(SplitWs(chunks[Len(chunks)])) <= overlap
  /\ RebuildFrom(chunks, 1, overlap) = words

\* C26: with k1 = 1.5 and b = 0.75 the argument of the logarithm of the idf
\* is above 1 for every containing-document count from 0 to the document
\* count, so every idf a search uses is positive and every score it returns
\* is a number not below 0
C26_IdfPositiveScoreNonNegative ==
  Searched =>
    /\ \A t \in DOMAIN bm25Out.idf :
         /\ ContainingDocs(documents, t) \in 0..Len(documents)
         /\ 2 * Len(documents) + 2 > 2 * ContainingDocs(documents, t) + 1
         /\ bm25Out.idf[t] > 0
    /\ \A k \in 1..Len(bm25Out.result) :
         /\ ~bm25Out.result[k].score.nan
         /\ bm25Out.result[k].score.v >= 0

\* a search over two documents or more for a term every document contains,
\* the case of the smallest argument
C26_Witness ==
  /\ Searched
  /\ Len(documents) >= 2
  /\ \E t \in DOMAIN bm25Out.idf :
       ContainingDocs(documents, t) = Len(documents)
  /\ \E k \in 1..Len(bm25Out.result) : bm25Out.result[k].score.v > 0

\* the last response is one of uploadHandler
UploadResponded ==
  /\ response.called
  /\ response.handler = "uploadHandler"

\* every addDocuments call of the running upload has settled
AllSettled == \A k \in DOMAIN adds.calls : adds.calls[k] # "inflight"

\* C27: an upload resolves its promise with one response and no more: once
\* its addDocuments calls have settled exactly one response is out, never two;
\* the response is a 400 for a multer error, a missing file or an empty text,
\* a 500 from the catch, or a 200 with the documentId, and the 200 only when
\* every addDocuments call has resolved
C27_UploadAnswersOnce ==
  /\ adds.called =>
       /\ adds.responses <= 1
       /\ AllSettled => adds.responses = 1
  /\ UploadResponded =>
       /\ response.statusCode \in {200, 400, 500}
       /\ response.statusCode = 400 <=>
            ("error" \in DOMAIN response /\ response.error \in
               {"Error uploading file", "No file uploaded",
                "Could not extract text from the file."})
       /\ response.statusCode = 500 <=>
            ("error" \in DOMAIN response
               /\ response.error = "Failed to process document")
       /\ response.statusCode = 200 =>
            /\ response.documentId \in ScopeIds
            /\ (adds.called /\ adds.documentId = response.documentId) =>
                 \A k \in DOMAIN adds.calls : adds.calls[k] = "resolved"

\* an upload of two chunks or more that was answered 500 at its first
\* rejected call and has seen a second call rejected since
C27_Witness ==
  /\ adds.called
  /\ adds.responses = 1
  /\ Cardinality({k \in DOMAIN adds.calls : adds.calls[k] = "rejected"}) >= 2
  /\ UploadResponded
  /\ response.statusCode = 500

\* an upload of two chunks or more answered 200
UploadSucceeded ==
  /\ adds.called
  /\ Len(adds.calls) >= 2
  /\ UploadResponded
  /\ response.statusCode = 200

(***************************************************************************)
(* Several uploadHandler invocations in one process.  Each uploads a       *)
(* document of one chunk; the await of Promise.all is where the others     *)
(* get to run.                                                             *)
(***************************************************************************)
\* the uploads that have arrived
Arrived == {u \in 1..MaxUploads : uploads[u].pc # "idle"}

\* uploadHandler up to the await of Promise.all; the documentId of upload u,
\* a uuidv4() value, is modelled as u
UploadArrives ==
  /\ \E u \in 1..MaxUploads :
       /\ uploads[u].pc = "idle"
       /\ uploads' = [uploads EXCEPT
                        ![u] = [pc |-> "adding",
                                arrival |-> Cardinality(Arrived) + 1]]
  /\ UNCHANGED <<serverVars, chunkVars, apiChunks, bm25Vars, appVars,
                 ingestVars, chatVars>>

\* the addDocuments call of upload u resolved and the handler runs on from the
\* await to its resolve without a break: loadDocumentMetadata, push,
\* saveDocumentMetadata, 200; or into the catch when the file fails
UploadCompletes ==
  /\ \E u \in 1..MaxUploads, pos \in 1..(Len(pineconeIndex) + 1),
        fsFails \in BOOLEAN :
       /\ uploads[u].pc = "adding"
       /\ pineconeIndex' = InsertAt(pineconeIndex, pos, u)
       /\ IF fsFails
            THEN /\ uploads' = [uploads EXCEPT ![u].pc = "failed"]
                 /\ documentMetadata' = documentMetadata
                 /\ response' = UploadFailed @@ [vectorStore |-> vectorStore]
            ELSE /\ uploads' = [uploads EXCEPT ![u].pc = "succeeded"]
                 /\ documentMetadata' = Pushed(documentMetadata, u)
                 /\ response' = [called |-> TRUE, handler |-> "uploadHandler",
                                 statusCode |-> 200, documentId |-> u,
                                 vectorStore |-> vectorStore]
  /\ UNCHANGED <<vectorStore, adds, chunkVars, apiChunks, bm25Vars, appVars,
                 ingestVars, chatVars>>

\* the addDocuments call of upload u rejected: the catch answers 500
UploadRejected ==
  /\ \E u \in 1..MaxUploads :
       /\ uploads[u].pc = "adding"
       /\ uploads' = [uploads EXCEPT ![u].pc = "failed"]
  /\ response' = UploadFailed @@ [vectorStore |-> vectorStore]
  /\ UNCHANGED <<vectorStore, pineconeIndex, adds, documentMetadata,
                 chunkVars, apiChunks, bm25Vars, appVars, ingestVars, chatVars>>

NextUploads ==
  \/ UploadArrives
  \/ UploadCompletes
  \/ UploadRejected

SpecUploads == Init /\ [][NextUploads]_vars

\* how many entries of the metadata file carry this id
EntriesOf(id) ==
  Cardinality({j \in 1..Len(documentMetadata) : documentMetadata[j] = id})

\* C28: whatever the interleaving of the uploads of one process, the metadata
\* file holds one entry for every upload that succeeded, each under its own
\* id, and none for an upload that failed or is still running
C28_OneEntryPerUpload ==
  /\ \A u \in 1..MaxUploads :
       EntriesOf(u) = IF uploads[u].pc = "succeeded" THEN 1 ELSE 0
  /\ Len(documentMetadata) =
       Cardinality({u \in 1..MaxUploads : uploads[u].pc = "succeeded"})

\* two uploads that succeeded, the later arrival saving its entry first, so
\* that the two ran side by side, and a third that failed
C28_Witness ==
  /\ \E j, k \in 1..Len(documentMetadata) :
       /\ j < k
       /\ uploads[documentMetadata[j]].arrival > uploads[documentMetadata[k]].arrival
  /\ \E u \in 1..MaxUploads : uploads[u].pc = "failed"

(***************************************************************************)
(* The chat App: handleSubmit and the queries it starts.  A handler reads  *)
(* the state of the render that created it; React flushes the updates of   *)
(* a form event before the page gets the next event, and renders the       *)
(* updates made after an await some time later.                            *)
(***************************************************************************)
\* what the user can have in the input field
ChatInputs == {s \in ShortTexts : Len(s) <= 1}

\* !input.trim()
Blank(s) == \A k \in 1..Len(s) : IsSpace(s[k])

\* the user messages of the conversation
UserMessages(messages) ==
  {k \in 1..Len(messages) : messages[k].role = "user"}

\* (mutant) the guard looks at the input only
SubmitIgnoredBlank(r) == Blank(r.input)

\* the guard of handleSubmit on the state r its closure holds
SubmitIgnored(r) == Blank(r.input) \/ r.isProcessing

\* handleSubmit up to its first await, the guard having the value ignored:
\* it returns, or appends the user message, clears the input, sets
\* isProcessing and starts the query
Submit(ignored) ==
  /\ ignored \/ Cardinality(UserMessages(chat.messages)) < MaxQueries
  /\ submitOut' = [called |-> TRUE, sent |-> ~ignored,
                   input |-> chat.input, isProcessing |-> chat.isProcessing,
                   messages |-> chat.messages, inFlight |-> inFlight]
  /\ IF ignored
       THEN UNCHANGED <<chat, rendered, inFlight>>
       ELSE /\ chat' = [chat EXCEPT
                          !.messages = Append(@, [role |-> "user",
                                                  content |-> rendered.input]),
                          !.input = <<>>,
                          !.isProcessing = TRUE]
            /\ rendered' = chat'
            /\ inFlight' = inFlight + 1
  /\ UNCHANGED <<chunkVars, apiChunks, bm25Vars, appVars, serverVars,
                 ingestVars, uploads>>

\* handleSubmit of the App that queries every document
HandleSubmit ==
  \E ignored \in {SubmitIgnored(rendered)} : Submit(ignored)

\* handleSubmit of the App that queries the selected document
HandleSubmitDoc ==
  \E ignored \in {SubmitIgnored(rendered) \/ rendered.selectedDocId = "none"} :
     Submit(ignored)

\* onChange of the input field
SetInput ==
  /\ \E s \in ChatInputs :
       /\ s # chat.input
       /\ chat' = [chat EXCEPT !.input = s]
  /\ rendered' = chat'
  /\ submitOut' = NoCall
  /\ UNCHANGED <<inFlight, chunkVars, apiChunks, bm25Vars, appVars,
                 serverVars, ingestVars, uploads>>

\* onChange of the document selector
SetSelectedDocId ==
  /\ \E d \in ScopeIds :
       /\ d # chat.selectedDocId
       /\ chat' = [chat EXCEPT !.selectedDocId = d]
  /\ rendered' = chat'
  /\ submitOut' = NoCall
  /\ UNCHANGED <<inFlight, chunkVars, apiChunks, bm25Vars, appVars,
                 serverVars, ingestVars, uploads>>

\* the query ran to the end of the try: the assistant message is appended,
\* saveContext resolved, the finally resets isProcessing
QuerySucceeds ==
  /\ inFlight > 0
  /\ chat' = [chat EXCEPT
                !.messages = Append(@, [role |-> "assistant",
                                        content |-> "answer"]),
                !.isProcessing = FALSE]
  /\ inFlight' = inFlight - 1
  /\ submitOut' = NoCall
  /\ UNCHANGED <<rendered, chunkVars, apiChunks, bm25Vars, appVars,
                 serverVars, ingestVars, uploads>>

\* an await of the try threw, before the assistant message or (saveContext)
\* after it: the catch sets error and appends the error message, the finally
\* resets isProcessing
QueryFails ==
  /\ inFlight > 0
  /\ \E answered \in BOOLEAN :
       chat' = [chat EXCEPT
                  !.messages =
                    Append(IF answered
                             THEN Append(@, [role |-> "assistant",
                                             content |-> "answer"])
                             ELSE @,
                           [role |-> "assistant", content |-> "Error"]),
                  !.error = "Error",
                  !.isProcessing = FALSE]
  /\ inFlight' = inFlight - 1
  /\ submitOut' = NoCall
  /\ UNCHANGED <<rendered, chunkVars, apiChunks, bm25Vars, appVars,
                 serverVars, ingestVars, uploads>>

\* React renders the updates a query made after its awaits
RenderChat ==
  /\ rendered # chat
  /\ rendered' = chat
  /\ submitOut' = NoCall
  /\ UNCHANGED <<chat, inFlight, chunkVars, apiChunks, bm25Vars, appVars,
                 serverVars, ingestVars, uploads>>

NextChat ==
  \/ HandleSubmit
  \/ HandleSubmitDoc
  \/ SetInput
  \/ SetSelectedDocId
  \/ QuerySucceeds
  \/ QueryFails
  \/ RenderChat

SpecChat == Init /\ [][NextChat]_vars

\* C29: at most one query is in flight; isProcessing is true exactly while
\* one is, so it is false again once the query has finished either way; and a
\* handleSubmit called while isProcessing is true or with a blank input
\* starts no query and leaves messages as they were
C29_OneQueryInFlight ==
  /\ inFlight <= 1
  /\ chat.isProcessing <=> inFlight = 1
  /\ (submitOut.called /\ (submitOut.isProcessing \/ Blank(submitOut.input)))
       => /\ ~submitOut.sent
          /\ chat.messages = submitOut.messages
          /\ inFlight = submitOut.inFlight

\* a query answered and a query failed are behind, a third is in flight, and
\* handleSubmit has just been called with a typed question
C29_Witness ==
  /\ \E k \in 1..Len(chat.messages) : chat.messages[k].content = "answer"
  /\ \E k \in 1..Len(chat.messages) : chat.messages[k].content = "Error"
  /\ submitOut.called
  /\ submitOut.isProcessing
  /\ ~Blank(submitOut.input)
  /\ inFlight = 1

\* a handleSubmit call ignored for its blank input alone
BlankSubmitIgnored ==
  /\ submitOut.called
  /\ ~submitOut.isProcessing
  /\ Blank(submitOut.input)
  /\ Len(submitOut.input) > 0

\* between the finally of a query and the next render the handler still holds
\* isProcessing = TRUE and ignores a typed question
StaleSubmitIgnored ==
  /\ submitOut.called
  /\ ~submitOut.sent
  /\ ~submitOut.isProcessing
  /\ ~Blank(submitOut.input)
  /\ rendered.selectedDocId # "none"

\* the last response is one of queryHandler
QueryHandled == response.called /\ response.handler = "queryHandler"

\* the response is the 400 with this error
Answered400(error) ==
  /\ response.statusCode = 400
  /\ response.error = error

\* C30: queryHandler answers a body that is not JSON with 400 'Invalid JSON',
\* a body without query with 400 'Query is required', a body with a query
\* and without documentId with 400 'Document ID is required', and calls
\* similaritySearch only for a body that has both
C30_InvalidRequestAnswered400 ==
  QueryHandled =>
    LET body == response.request
    IN  /\ body.json = "malformed" => Answered400("Invalid JSON")
        /\ (body.json # "malformed" /\ body.query = "")
             => Answered400("Query is required")
        /\ (body.json # "malformed" /\ body.query # ""
               /\ body.documentId = "")
             => Answered400("Document ID is required")
        /\ response.search # "none"
             => (body.json = "object" /\ body.query # ""
                   /\ body.documentId # "")

\* what stands of C30: the vector store is called only for an object with a
\* query and a documentId, and a body that JSON.parse turns into an object
\* gets the three answers in the order of the checks
NoSearchForInvalidRequest ==
  QueryHandled =>
    LET body == response.request
    IN  /\ response.search # "none"
             <=> (body.json = "object" /\ body.query # ""
                    /\ body.documentId # "")
        /\ body.json = "malformed" => Answered400("Invalid JSON")
        /\ (body.json = "object" /\ body.query = "")
             => Answered400("Query is required")
        /\ (body.json = "object" /\ body.query # ""
               /\ body.documentId = "")
             => Answered400("Document ID is required")

\* a request without query and without documentId: the query is reported
BothMissing ==
  /\ QueryHandled
  /\ response.request.json = "object"
  /\ response.request.query = ""
  /\ response.request.documentId = ""
  /\ Answered400("Query is required")

\* the body null: no response of the handler
NullBodyThrows ==
  /\ QueryHandled
  /\ response.request.json = "null"
  /\ response.statusCode # 400

====
